---- MODULE Spec2Model ----
(***************************************************************************)
(* The transaction envelope of the Hedera Rust SDK:                        *)
(* Transaction<D> (sdk/rust/src/transaction/mod.rs) with the payload kinds *)
(* EthereumTransactionData, TokenUnpauseTransactionData and                *)
(* ContractExecuteTransactionData.  One envelope is constructed (new() or  *)
(* from_parts) and then driven through its public operations (Spec).       *)
(* SpecExec follows one execute into the execution engine, SpecCodec       *)
(* applies the rendering and the byte round trip to frozen envelopes, and  *)
(* SpecSign runs sign calls of several callers against one envelope.       *)
(***************************************************************************)
EXTENDS Integers, Sequences, FiniteSets, TLC

VARIABLES
    body,      \* TransactionBody<D>: data, node_account_ids, ..., is_frozen
    signers,   \* Vec<AnySigner>
    origin,    \* the constructor that built the envelope: "new" | "from_parts"
    call,      \* the last call on the envelope: operation, result, value
    calls,     \* number of calls made on the envelope so far
    engine,    \* crate::execute::execute: the run started by execute
    codec,     \* the last rendering / decoding and its result
    signing    \* the sign calls of the callers that share the envelope

vars == <<body, signers, origin, call, calls, engine, codec, signing>>

(* ------------------------------ bounds -------------------------------- *)

\* calls made on one envelope
MaxCalls == 3

\* chunks of one logical operation
MaxChunks == 2

\* the retry policy's max_attempts
MaxAttempts == 3

\* callers that sign the same envelope
NumCallers == 2

(* ------------------------------ values -------------------------------- *)

\* Option<T>: None, Some(x)
None == <<>>
Some(x) == <<x>>
unwrap(o) == o[1]

\* const DEFAULT_TRANSACTION_VALID_DURATION: Duration = Duration::seconds(120)
DEFAULT_TRANSACTION_VALID_DURATION == 120

Kinds == {"Ethereum", "TokenUnpause", "ContractExecute"}

LedgerIds == {1, 2}

\* The checksum of an entity number under a ledger id (spec 4.5: recomputed
\* from the identifier's numeric components and the network identity).
Checksum(ledger_id, num) == (num + 3 * ledger_id) % 7

\* FileId / TokenId / ContractId: numeric part and optional checksum suffix
EntityIds ==
    { [num |-> 6, checksum |-> c] : c \in {None, Some(Checksum(2, 6))} }

\* node AccountIds; the client's network holds 3 and 4, 5 is known to the caller only
ExplicitNodeLists == { <<5, 3>> }
ClientNetwork == {3, 4}

Durations == {30}
ExplicitFees == {1}
ClientFees == {1, 2}
Memos == {"memo"}
Times == {1, 2}
ExplicitTransactionIds == { [account_id |-> 5006, valid_start |-> 1] }
ClientOperators == {1002}
PartsOperators == {1001}
ByteStrings == { <<222, 173>> }
Amounts == {3}

PublicKeys == {1, 2}
PrivateKeys == {11}

\* PrivateKey::public_key
PublicKeyOf(private_key) == private_key - 10

\* AnySigner::PrivateKey(private_key) | AnySigner::Arbitrary(public_key, signer)
AnySigner_PrivateKey(private_key) == [variant |-> "PrivateKey", key |-> private_key]
AnySigner_Arbitrary(public_key) == [variant |-> "Arbitrary", key |-> public_key]

\* AnySigner::public_key
public_key(signer) ==
    IF signer.variant = "PrivateKey" THEN PublicKeyOf(signer.key) ELSE signer.key

\* Client: network, default max fee (AtomicU64), operator, checksum settings
Clients ==
    [ max_transaction_fee : ClientFees,
      operator : {None} \cup { Some(o) : o \in ClientOperators },
      auto_validate_checksums : BOOLEAN,
      ledger_id : {None} \cup { Some(l) : l \in LedgerIds } ]

OptClients == {None} \cup { Some(c) : c \in Clients }

\* Client::random_node_ids: a pseudo-random non-empty selection of the
\* client's healthy nodes, in some order
RandomNodeIds == { <<4>>, <<3, 4>> }

(* ----------------------------- payloads ------------------------------- *)

\* D::default() for each payload kind
DefaultData(kind) ==
    CASE kind = "Ethereum" ->
            [kind |-> "Ethereum", ethereum_data |-> <<>>,
             call_data_file_id |-> None, max_gas_allowance_hbar |-> 0]
      [] kind = "TokenUnpause" ->
            [kind |-> "TokenUnpause", token_id |-> None]
      [] kind = "ContractExecute" ->
            [kind |-> "ContractExecute", contract_id |-> None,
             gas_limit |-> 0, value |-> 0, data |-> <<>>]

\* Option<EntityId>::validate_checksums: an absent id or an absent checksum
\* is valid, a present checksum must be the one of the ledger id
ValidateEntityId(opt_id, ledger_id) ==
    \/ opt_id = None
    \/ unwrap(opt_id).checksum = None
    \/ unwrap(unwrap(opt_id).checksum) = Checksum(ledger_id, unwrap(opt_id).num)

\* ValidateChecksums for ContractExecuteTransactionData: the contract id is
\* the entity identifier the payload embeds
validate_checksums_contract_execute(data, ledger_id) ==
    ValidateEntityId(data.contract_id, ledger_id)

\* ValidateChecksums for EthereumTransactionData and
\* TokenUnpauseTransactionData
validate_checksums(data, ledger_id) ==
    CASE data.kind = "Ethereum" -> ValidateEntityId(data.call_data_file_id, ledger_id)
      [] data.kind = "TokenUnpause" -> ValidateEntityId(data.token_id, ledger_id)
      [] data.kind = "ContractExecute" -> validate_checksums_contract_execute(data, ledger_id)

(* ---------------------------- construction ---------------------------- *)

\* impl Default for Transaction<D>
DefaultBody(kind) ==
    [ data |-> DefaultData(kind),
      node_account_ids |-> None,
      transaction_valid_duration |-> None,
      max_transaction_fee |-> None,
      transaction_memo |-> "",
      transaction_id |-> None,
      operator |-> None,
      is_frozen |-> FALSE ]

NoCall == [op |-> "new", frozen_before |-> FALSE, status |-> "Ok", value |-> <<>>]

\* Transaction::new
New ==
    /\ \E kind \in Kinds : body = DefaultBody(kind)
    /\ signers = <<>>
    /\ origin = "new"

\* Transaction::from_parts(body, signers): the body is taken as given; here
\* a mutable body that already carries an operator
FromParts ==
    /\ \E kind \in Kinds, o \in PartsOperators :
            body = [DefaultBody(kind) EXCEPT !.operator = Some(o)]
    /\ signers = <<>>
    /\ origin = "from_parts"

\* no execute has been started
EngineIdle ==
    [pc |-> "idle", op |-> "", timeout |-> FALSE, total |-> 0, chunk |-> 0,
     attempt |-> 0, accepted |-> 0, log |-> <<>>, result |-> None]

\* nothing has been rendered or decoded
CodecIdle == [op |-> "none", input |-> <<>>, output |-> [status |-> "none"]]

Callers == 1 .. NumCallers

\* no caller is inside a sign call
SigningIdle ==
    [borrow |-> None,
     callers |-> [c \in Callers |-> [pc |-> "idle", signer |-> None]]]

Init ==
    /\ New \/ FromParts
    /\ call = NoCall
    /\ calls = 0
    /\ engine = EngineIdle
    /\ codec = CodecIdle
    /\ signing = SigningIdle

(* ------------------------------ helpers ------------------------------- *)

\* Transaction::is_frozen
is_frozen(b) == b.is_frozen

\* require_not_frozen with the assertion dropped
require_not_frozen_unchecked(b) == TRUE

\* Transaction::require_not_frozen: TRUE when the assertion passes, FALSE
\* when it panics
require_not_frozen(b) == ~is_frozen(b)

\* a panic unwinds out of the caller: nothing more is called on the envelope
Running == call.status # "Panic"

\* execute borrows the envelope (&mut self) until its future completes
Executing == engine.pc \in {"select", "wait"}

\* one more call can be made on the envelope: no call in progress holds it
Callable ==
    /\ Running
    /\ calls < MaxCalls
    /\ ~Executing
    /\ signing.borrow = None

Ret(op, status) ==
    [op |-> op, frozen_before |-> body.is_frozen, status |-> status, value |-> <<>>]

\* Transaction::body_mut: require_not_frozen, then the body
body_mut(b) == require_not_frozen(b)

\* Transaction::data_mut: require_not_frozen, then the payload
data_mut(b) == require_not_frozen(b)

(* ------------------------------ setters ------------------------------- *)

\* a setter through body_mut / data_mut: `allowed` is the outcome of the
\* assertion, `nb` the body after the assignment
CheckedSet(op, allowed, nb) ==
    /\ IF allowed
         THEN body' = nb /\ call' = Ret(op, "Ok")
         ELSE body' = body /\ call' = Ret(op, "Panic")
    /\ calls' = calls + 1
    /\ UNCHANGED <<signers, origin, engine, codec, signing>>

\* a setter that assigns self.body.data.<field> directly
DirectSet(op, nb) ==
    /\ body' = nb
    /\ call' = Ret(op, "Ok")
    /\ calls' = calls + 1
    /\ UNCHANGED <<signers, origin, engine, codec, signing>>

\* Transaction::node_account_ids
SetNodeAccountIds ==
    /\ Callable
    /\ \E ids \in ExplicitNodeLists :
        CheckedSet("node_account_ids", body_mut(body),
                   [body EXCEPT !.node_account_ids = Some(ids)])

\* Transaction::transaction_valid_duration
SetTransactionValidDuration ==
    /\ Callable
    /\ \E duration \in Durations :
        CheckedSet("transaction_valid_duration", body_mut(body),
                   [body EXCEPT !.transaction_valid_duration = Some(duration)])

\* Transaction::max_transaction_fee
SetMaxTransactionFee ==
    /\ Callable
    /\ \E fee \in ExplicitFees :
        CheckedSet("max_transaction_fee", body_mut(body),
                   [body EXCEPT !.max_transaction_fee = Some(fee)])

\* Transaction::transaction_memo
SetTransactionMemo ==
    /\ Callable
    /\ \E memo \in Memos :
        CheckedSet("transaction_memo", body_mut(body),
                   [body EXCEPT !.transaction_memo = memo])

\* Transaction::transaction_id
SetTransactionId ==
    /\ Callable
    /\ \E id \in ExplicitTransactionIds :
        CheckedSet("transaction_id", body_mut(body),
                   [body EXCEPT !.transaction_id = Some(id)])

\* EthereumTransaction::ethereum_data
SetEthereumData ==
    /\ Callable
    /\ body.data.kind = "Ethereum"
    /\ \E data \in ByteStrings :
        CheckedSet("ethereum_data", data_mut(body),
                   [body EXCEPT !.data.ethereum_data = data])

\* EthereumTransaction::call_data_file_id
SetCallDataFileId ==
    /\ Callable
    /\ body.data.kind = "Ethereum"
    /\ \E id \in EntityIds :
        CheckedSet("call_data_file_id", data_mut(body),
                   [body EXCEPT !.data.call_data_file_id = Some(id)])

\* EthereumTransaction::max_gas_allowance_hbar
SetMaxGasAllowanceHbar ==
    /\ Callable
    /\ body.data.kind = "Ethereum"
    /\ \E allowance \in Amounts :
        CheckedSet("max_gas_allowance_hbar", data_mut(body),
                   [body EXCEPT !.data.max_gas_allowance_hbar = allowance])

\* TokenUnpauseTransaction::token_id
SetTokenId ==
    /\ Callable
    /\ body.data.kind = "TokenUnpause"
    /\ \E token_id \in EntityIds :
        CheckedSet("token_id", data_mut(body),
                   [body EXCEPT !.data.token_id = Some(token_id)])

\* ContractExecuteTransaction::contract_id
SetContractId ==
    /\ Callable
    /\ body.data.kind = "ContractExecute"
    /\ \E contract_id \in EntityIds :
        DirectSet("contract_id", [body EXCEPT !.data.contract_id = Some(contract_id)])

\* ContractExecuteTransaction::gas_limit
SetGasLimit ==
    /\ Callable
    /\ body.data.kind = "ContractExecute"
    /\ \E gas \in Amounts :
        DirectSet("gas_limit", [body EXCEPT !.data.gas_limit = gas])

\* ContractExecuteTransaction::value
SetValue ==
    /\ Callable
    /\ body.data.kind = "ContractExecute"
    /\ \E value \in Amounts :
        DirectSet("value", [body EXCEPT !.data.value = value])

\* ContractExecuteTransaction::data
SetData ==
    /\ Callable
    /\ body.data.kind = "ContractExecute"
    /\ \E data \in ByteStrings :
        DirectSet("data", [body EXCEPT !.data.data = data])

MetadataSetters ==
    {"node_account_ids", "transaction_valid_duration", "max_transaction_fee",
     "transaction_memo", "transaction_id"}

CheckedPayloadSetters ==
    {"ethereum_data", "call_data_file_id", "max_gas_allowance_hbar", "token_id"}

DirectPayloadSetters == {"contract_id", "gas_limit", "value", "data"}

Setters == MetadataSetters \cup CheckedPayloadSetters \cup DirectPayloadSetters

(* ------------------------------ signing ------------------------------- *)

\* sign_signer without the membership test
sign_signer_always_push(ss, signer) == Append(ss, signer)

\* Transaction::sign_signer: skip the signer if we already have it
sign_signer(ss, signer) ==
    IF \E i \in 1 .. Len(ss) : public_key(ss[i]) = public_key(signer)
    THEN ss
    ELSE Append(ss, signer)

\* a sign call that also freezes the envelope
SignCall_and_freeze(op, signer) ==
    /\ calls' = calls + 1
    /\ signers' = sign_signer(signers, signer)
    /\ call' = [Ret(op, "Ok") EXCEPT !.value = <<public_key(signer)>>]
    /\ body' = [body EXCEPT !.is_frozen = TRUE]
    /\ UNCHANGED <<origin, engine, codec, signing>>

SignCall(op, signer) ==
    /\ calls' = calls + 1
    /\ signers' = sign_signer(signers, signer)
    /\ call' = [Ret(op, "Ok") EXCEPT !.value = <<public_key(signer)>>]
    /\ UNCHANGED <<body, origin, engine, codec, signing>>

\* Transaction::sign
Sign ==
    /\ Callable
    /\ \E private_key \in PrivateKeys :
          SignCall("sign", AnySigner_PrivateKey(private_key))

\* Transaction::sign_with
SignWith ==
    /\ Callable
    /\ \E pk \in PublicKeys : SignCall("sign_with", AnySigner_Arbitrary(pk))

(* ------------------------------- freeze ------------------------------- *)

\* node list resolution that asks the client first
resolve_node_account_ids_client_first(b, client, random) ==
    IF client # None
    THEN IF random # <<>> THEN random ELSE CHOOSE l \in RandomNodeIds : TRUE
    ELSE unwrap(b.node_account_ids)

\* freeze_with, node list: the envelope's own list, else the client's
\* random_node_ids(); `random` is what random_node_ids() would return
resolve_node_account_ids(b, client, random) ==
    IF b.node_account_ids # None THEN unwrap(b.node_account_ids) ELSE random

\* fee resolution with the floor test off by one (max >= 1)
resolve_max_transaction_fee_floor_off_by_one(b, client) ==
    IF b.max_transaction_fee # None
    THEN b.max_transaction_fee
    ELSE IF client # None /\ unwrap(client).max_transaction_fee >= 1
         THEN Some(unwrap(client).max_transaction_fee)
         ELSE None

\* freeze_with, fee: the envelope's own fee, else the client's default when
\* it is above 1 tinybar, else left unset (the per-kind default applies later)
resolve_max_transaction_fee(b, client) ==
    IF b.max_transaction_fee # None
    THEN b.max_transaction_fee
    ELSE IF client # None /\ unwrap(client).max_transaction_fee > 1
         THEN Some(unwrap(client).max_transaction_fee)
         ELSE None

\* freeze_with, operator: client.and_then(|it| it.operator_internal()...)
resolve_operator(b, client) ==
    IF client = None THEN None ELSE unwrap(client).operator

\* a checksum step that skips the validation when the client has no ledger id
checksum_step_skip_without_ledger_id(b, client) ==
    IF client # None /\ unwrap(client).auto_validate_checksums
         /\ unwrap(client).ledger_id # None
    THEN IF validate_checksums(b.data, unwrap(unwrap(client).ledger_id))
         THEN "Ok"
         ELSE "ChecksumMismatch"
    ELSE "Ok"

\* freeze_with, the checksum step that follows the assignments
\* (validate_checksums_for_ledger_id hands the ledger id to the payload)
checksum_step(b, client) ==
    IF client # None /\ unwrap(client).auto_validate_checksums
    THEN IF unwrap(client).ledger_id # None
         THEN IF validate_checksums(b.data, unwrap(unwrap(client).ledger_id))
              THEN "Ok"
              ELSE "ChecksumMismatch"
         ELSE "CannotPerformTaskWithoutLedgerId"
    ELSE "Ok"

\* freeze_with without the early return for a frozen envelope
freeze_with_no_early_return(b, client, random) ==
    IF b.node_account_ids = None /\ client = None
    THEN [body |-> b, status |-> "FreezeUnsetNodeAccountIds"]
    ELSE [body |->
            [b EXCEPT !.node_account_ids = Some(resolve_node_account_ids(b, client, random)),
                      !.max_transaction_fee = resolve_max_transaction_fee(b, client),
                      !.operator = resolve_operator(b, client),
                      !.is_frozen = TRUE],
          status |-> checksum_step(b, client)]

\* freeze_with that re-runs on a frozen envelope and takes the freeze back
\* when the checksum step fails
freeze_with_rollback(b, client, random) ==
    IF b.node_account_ids = None /\ client = None
    THEN [body |-> b, status |-> "FreezeUnsetNodeAccountIds"]
    ELSE [body |->
            [b EXCEPT !.node_account_ids = Some(resolve_node_account_ids(b, client, random)),
                      !.max_transaction_fee = resolve_max_transaction_fee(b, client),
                      !.operator = resolve_operator(b, client),
                      !.is_frozen = (checksum_step(b, client) = "Ok")],
          status |-> checksum_step(b, client)]

\* freeze_with that also writes the default valid duration into the body
freeze_with_stores_default_duration(b, client, random) ==
    IF is_frozen(b)
    THEN [body |-> b, status |-> "Ok"]
    ELSE IF b.node_account_ids = None /\ client = None
    THEN [body |-> b, status |-> "FreezeUnsetNodeAccountIds"]
    ELSE [body |->
            [b EXCEPT !.node_account_ids = Some(resolve_node_account_ids(b, client, random)),
                      !.max_transaction_fee = resolve_max_transaction_fee(b, client),
                      !.operator = resolve_operator(b, client),
                      !.transaction_valid_duration =
                          IF b.transaction_valid_duration = None
                          THEN Some(DEFAULT_TRANSACTION_VALID_DURATION)
                          ELSE b.transaction_valid_duration,
                      !.is_frozen = TRUE],
          status |-> checksum_step(b, client)]

\* freeze_with that resets the memo
freeze_with_clears_memo(b, client, random) ==
    IF is_frozen(b)
    THEN [body |-> b, status |-> "Ok"]
    ELSE IF b.node_account_ids = None /\ client = None
    THEN [body |-> b, status |-> "FreezeUnsetNodeAccountIds"]
    ELSE [body |->
            [b EXCEPT !.node_account_ids = Some(resolve_node_account_ids(b, client, random)),
                      !.max_transaction_fee = resolve_max_transaction_fee(b, client),
                      !.operator = resolve_operator(b, client),
                      !.transaction_memo = "",
                      !.is_frozen = TRUE],
          status |-> checksum_step(b, client)]

\* freeze_with that freezes even when no node list can be resolved
freeze_with_without_node_list(b, client, random) ==
    IF is_frozen(b)
    THEN [body |-> b, status |-> "Ok"]
    ELSE IF b.node_account_ids = None /\ client = None
    THEN [body |-> [b EXCEPT !.is_frozen = TRUE], status |-> "Ok"]
    ELSE [body |->
            [b EXCEPT !.node_account_ids = Some(resolve_node_account_ids(b, client, random)),
                      !.max_transaction_fee = resolve_max_transaction_fee(b, client),
                      !.operator = resolve_operator(b, client),
                      !.is_frozen = TRUE],
          status |-> checksum_step(b, client)]

\* freeze_with that sets is_frozen before it looks for the node list
freeze_with_freezes_before_node_list(b, client, random) ==
    IF is_frozen(b)
    THEN [body |-> b, status |-> "Ok"]
    ELSE IF b.node_account_ids = None /\ client = None
    THEN [body |-> [b EXCEPT !.is_frozen = TRUE], status |-> "FreezeUnsetNodeAccountIds"]
    ELSE [body |->
            [b EXCEPT !.node_account_ids = Some(resolve_node_account_ids(b, client, random)),
                      !.max_transaction_fee = resolve_max_transaction_fee(b, client),
                      !.operator = resolve_operator(b, client),
                      !.is_frozen = TRUE],
          status |-> checksum_step(b, client)]

\* Transaction::freeze_with: the body after the call and the result
freeze_with(b, client, random) ==
    IF is_frozen(b)
    THEN [body |-> b, status |-> "Ok"]
    ELSE IF b.node_account_ids = None /\ client = None
    THEN [body |-> b, status |-> "FreezeUnsetNodeAccountIds"]
    ELSE [body |->
            [b EXCEPT !.node_account_ids = Some(resolve_node_account_ids(b, client, random)),
                      !.max_transaction_fee = resolve_max_transaction_fee(b, client),
                      !.operator = resolve_operator(b, client),
                      !.is_frozen = TRUE],
          status |-> checksum_step(b, client)]

FreezeCall(op, client, random) ==
    /\ calls' = calls + 1
    /\ body' = freeze_with(body, client, random).body
    /\ call' = Ret(op, freeze_with(body, client, random).status)
    /\ UNCHANGED <<signers, origin, engine, codec, signing>>

\* what random_node_ids() can return where freeze_with calls it
RandomChoices(b, client) ==
    IF ~is_frozen(b) /\ b.node_account_ids = None /\ client # None
    THEN RandomNodeIds
    ELSE {<<>>}

\* Transaction::freeze
Freeze ==
    /\ Callable
    /\ \E random \in RandomChoices(body, None) : FreezeCall("freeze", None, random)

\* Transaction::freeze_with
FreezeWith ==
    /\ Callable
    /\ \E client \in OptClients :
          \E random \in RandomChoices(body, client) :
              FreezeCall("freeze_with", client, random)

(* ------------------------------ to_bytes ------------------------------ *)

\* Operator::generate_transaction_id: the operator's account and the
\* current time
generate_transaction_id(operator, now) ==
    [account_id |-> operator, valid_start |-> now]

\* ChunkInfo: the chunk being rendered and the number of chunks
single_chunk == [current |-> 0, total |-> 1]

\* ChunkInfo::assert_single_transaction: what the call can do.  It passes
\* ("Ok") for the only chunk of a single transaction and is an assertion
\* that aborts the rendering ("Panic") for any other chunk; the value it
\* returns is discarded by `let _ =`
assert_single_transaction(chunk_info) ==
    IF chunk_info.current = 0 /\ chunk_info.total = 1
    THEN {"Ok"}
    ELSE {"Panic"}

\* Option<EntityId>::to_protobuf: shard, realm and number; the checksum is
\* not part of the wire form
EntityId_to_protobuf(opt_id) ==
    IF opt_id = None THEN None ELSE Some([num |-> unwrap(opt_id).num])

\* Option<EntityId>::from_protobuf
EntityId_from_protobuf(opt_pb) ==
    IF opt_pb = None THEN None
    ELSE Some([num |-> unwrap(opt_pb).num, checksum |-> None])

\* the body a rendering produced, or no body
Rendered(pb) == [status |-> "Ok", data |-> Some(pb)]
RenderPanic == [status |-> "Panic", data |-> None]

\* EthereumTransactionData::to_transaction_data_protobuf; `asserted` is what
\* assert_single_transaction did, its value is discarded.  Hbar is held in
\* tinybars, so to_tinybars is the held number
to_transaction_data_protobuf_ethereum(data, asserted) ==
    IF asserted = "Panic" THEN RenderPanic
    ELSE Rendered([kind |-> "EthereumTransaction",
                   ethereum_data |-> data.ethereum_data,
                   call_data |-> EntityId_to_protobuf(data.call_data_file_id),
                   max_gas_allowance |-> data.max_gas_allowance_hbar])

\* TokenUnpauseTransactionData::to_transaction_data_protobuf and to_protobuf
to_transaction_data_protobuf_token_unpause(data, asserted) ==
    IF asserted = "Panic" THEN RenderPanic
    ELSE Rendered([kind |-> "TokenUnpause",
                   token |-> EntityId_to_protobuf(data.token_id)])

\* ContractExecuteTransactionData::to_transaction_data_protobuf: no ChunkInfo
\* is taken; gas_limit and value are cast `as i64`, which keeps every value
\* below 2^63
to_transaction_data_protobuf_contract_execute(data) ==
    Rendered([kind |-> "ContractCall",
              gas |-> data.gas_limit,
              amount |-> data.value,
              contract_id |-> EntityId_to_protobuf(data.contract_id),
              function_parameters |-> data.data])

\* ToTransactionDataProtobuf::to_transaction_data_protobuf by payload kind
to_transaction_data_protobuf(data, asserted) ==
    CASE data.kind = "Ethereum" -> to_transaction_data_protobuf_ethereum(data, asserted)
      [] data.kind = "TokenUnpause" -> to_transaction_data_protobuf_token_unpause(data, asserted)
      [] data.kind = "ContractExecute" -> to_transaction_data_protobuf_contract_execute(data)

\* the hard-coded default fee limit of a payload kind, in tinybars (2 Hbar)
default_max_transaction_fee(data) == 200000000

\* the message built for one node: the transaction body of a single
\* transaction (the only chunk), with the fee and valid duration defaults
make_request_inner(b, transaction_id, node_account_id) ==
    [node_account_id |-> node_account_id,
     transaction_id |-> transaction_id,
     transaction_fee |->
        IF b.max_transaction_fee # None
        THEN unwrap(b.max_transaction_fee)
        ELSE default_max_transaction_fee(b.data),
     transaction_valid_duration |->
        IF b.transaction_valid_duration # None
        THEN unwrap(b.transaction_valid_duration)
        ELSE DEFAULT_TRANSACTION_VALID_DURATION,
     memo |-> b.transaction_memo,
     data |-> to_transaction_data_protobuf(b.data, "Ok").data]

\* the errors make_request_inner can return for a node
RequestErrors == {"RequestErrorA", "RequestErrorB"}

\* the Result of make_request_inner for each node of the envelope's node
\* list: Ok or one of the errors
RequestResults(b) ==
    LET nodes == IF b.node_account_ids = None THEN <<>> ELSE unwrap(b.node_account_ids)
    IN [{ nodes[i] : i \in 1 .. Len(nodes) } -> {"Ok"} \cup RequestErrors]

\* Iterator::collect into Result<Vec<_>, _>: the first Err in iteration
\* order, else every Ok value in that order
collect(results) ==
    LET failed == { i \in 1 .. Len(results) : results[i].status # "Ok" }
    IN IF failed = {}
       THEN [status |-> "Ok", value |-> [i \in 1 .. Len(results) |-> results[i].value]]
       ELSE [status |-> results[CHOOSE i \in failed : \A j \in failed : i <= j].status,
             value |-> <<>>]

\* to_bytes that asks for the operator even when the transaction id is set
to_bytes_operator_required(b, now, results) ==
    IF ~is_frozen(b)
    THEN [status |-> "Panic", value |-> <<>>]
    ELSE IF b.operator = None
    THEN [status |-> "NoPayerAccountOrTransactionId", value |-> <<>>]
    ELSE LET transaction_id ==
                IF b.transaction_id # None
                THEN unwrap(b.transaction_id)
                ELSE generate_transaction_id(unwrap(b.operator), now)
             nodes == unwrap(b.node_account_ids)
         IN collect([i \in 1 .. Len(nodes) |->
                       [status |-> results[nodes[i]],
                        value |-> make_request_inner(b, transaction_id, nodes[i])]])

\* to_bytes that returns the messages built before the first failure
to_bytes_partial_list(b, now, results) ==
    IF ~is_frozen(b)
    THEN [status |-> "Panic", value |-> <<>>]
    ELSE IF b.transaction_id = None /\ b.operator = None
    THEN [status |-> "NoPayerAccountOrTransactionId", value |-> <<>>]
    ELSE IF b.node_account_ids = None
    THEN [status |-> "Panic", value |-> <<>>]
    ELSE LET transaction_id ==
                IF b.transaction_id # None
                THEN unwrap(b.transaction_id)
                ELSE generate_transaction_id(unwrap(b.operator), now)
             nodes == unwrap(b.node_account_ids)
             failed == { i \in 1 .. Len(nodes) : results[nodes[i]] # "Ok" }
             built == IF failed = {}
                      THEN Len(nodes)
                      ELSE (CHOOSE i \in failed : \A j \in failed : i <= j) - 1
         IN [status |-> IF failed = {} THEN "Ok" ELSE results[nodes[built + 1]],
             value |-> [i \in 1 .. built |->
                          make_request_inner(b, transaction_id, nodes[i])]]

\* Transaction::to_bytes: the result and the transaction list; results are
\* the outcomes of make_request_inner for the nodes
to_bytes(b, now, results) ==
    IF ~is_frozen(b)
    THEN [status |-> "Panic", value |-> <<>>]
    ELSE IF b.transaction_id = None /\ b.operator = None
    THEN [status |-> "NoPayerAccountOrTransactionId", value |-> <<>>]
    ELSE IF b.node_account_ids = None
    THEN [status |-> "Panic", value |-> <<>>]
    ELSE LET transaction_id ==
                IF b.transaction_id # None
                THEN unwrap(b.transaction_id)
                ELSE generate_transaction_id(unwrap(b.operator), now)
             nodes == unwrap(b.node_account_ids)
         IN collect([i \in 1 .. Len(nodes) |->
                       [status |-> results[nodes[i]],
                        value |-> make_request_inner(b, transaction_id, nodes[i])]])

ToBytes ==
    /\ Callable
    /\ calls' = calls + 1
    /\ \E now \in Times : \E results \in RequestResults(body) :
          call' = [Ret("to_bytes", to_bytes(body, now, results).status)
                     EXCEPT !.value = to_bytes(body, now, results).value]
    /\ UNCHANGED <<body, signers, origin, engine, codec, signing>>

(* ------------------------------ execute ------------------------------- *)

\* crate::execute::execute: the engine returns a response or an error
EngineOutcomes == {"Ok", "ExecuteError"}

ExecuteCall(op, client, random) ==
    /\ calls' = calls + 1
    /\ body' = freeze_with(body, Some(client), random).body
    /\ IF freeze_with(body, Some(client), random).status # "Ok"
       THEN call' = Ret(op, freeze_with(body, Some(client), random).status)
       ELSE \E outcome \in EngineOutcomes : call' = Ret(op, outcome)
    /\ UNCHANGED <<signers, origin, engine, codec, signing>>

\* Transaction::execute
Execute ==
    /\ Callable
    /\ \E client \in Clients :
          \E random \in RandomChoices(body, Some(client)) :
              ExecuteCall("execute", client, random)

\* Transaction::execute_with_timeout (execute_with_optional_timeout)
ExecuteWithTimeout ==
    /\ Callable
    /\ \E client \in Clients :
          \E random \in RandomChoices(body, Some(client)) :
              ExecuteCall("execute_with_timeout", client, random)

(* ------------------------- execution engine --------------------------- *)

\* execute without the implicit freeze
execute_without_freeze(b, client, random) == [body |-> b, status |-> "Ok"]

\* execute_with_optional_timeout: self.freeze_with(Some(client))?
execute_freeze(b, client, random) == freeze_with(b, Some(client), random)

\* what a node answers to one network call: a status code, or the call
\* fails in transport
Responses == {"SUCCESS", "BUSY", "TransportError", "INVALID_SIGNATURE"}

\* a classification that retries on every failure
classify_fatal_as_transient(response) ==
    IF response = "SUCCESS" THEN "success" ELSE "transient"

\* the engine's reading of a response: success, transient (transport error
\* or busy: retried), fatal (anything else)
classify(response) ==
    CASE response = "SUCCESS" -> "success"
      [] response \in {"BUSY", "TransportError"} -> "transient"
      [] OTHER -> "fatal"

\* a cursor that stays on the first node
select_node_first(nodes, attempt) == nodes[1]

\* the candidate node of an attempt (attempts count from 1 for each chunk):
\* round-robin over the resolved node list, with wraparound
select_node(nodes, attempt) == nodes[((attempt - 1) % Len(nodes)) + 1]

\* the result the engine hands back
EngineResult(kind, detail) == Some([kind |-> kind, detail |-> detail])

\* the engine when execute enters it: the first attempt of the first chunk;
\* `log` holds the network calls made for the current chunk, `accepted` the
\* number of chunks the network has accepted
engine_start(op, timeout, total) ==
    [pc |-> "select", op |-> op, timeout |-> timeout, total |-> total,
     chunk |-> 0, attempt |-> 1, accepted |-> 0, log |-> <<>>, result |-> None]

\* a send that goes on to the next chunk without waiting for the answer
send_pipelined(e, nodes) ==
    LET sent == Append(e.log, [chunk |-> e.chunk, attempt |-> e.attempt,
                               node |-> select_node(nodes, e.attempt),
                               response |-> "pending"])
    IN IF e.chunk + 1 < e.total
       THEN [e EXCEPT !.log = sent, !.chunk = @ + 1, !.attempt = 1]
       ELSE [e EXCEPT !.log = sent, !.pc = "wait"]

\* one network call: the current chunk goes to the candidate node and the
\* engine waits for the answer
send(e, nodes) ==
    [e EXCEPT !.pc = "wait",
              !.log = Append(@, [chunk |-> e.chunk, attempt |-> e.attempt,
                                 node |-> select_node(nodes, e.attempt),
                                 response |-> "pending"])]

\* the answer to the outstanding call: success goes on to the next chunk or
\* ends the run, a transient failure is retried up to max_attempts, a fatal
\* status ends the run
receive(e, response) ==
    LET answered == [e EXCEPT !.log[Len(e.log)].response = response]
    IN CASE classify(response) = "success" ->
              IF e.chunk + 1 >= e.total
              THEN [answered EXCEPT !.pc = "done",
                                    !.accepted = @ + 1,
                                    !.result = EngineResult("Ok", response)]
              ELSE [e EXCEPT !.pc = "select", !.chunk = @ + 1, !.attempt = 1,
                             !.accepted = @ + 1, !.log = <<>>]
         [] classify(response) = "transient" ->
              IF e.attempt >= MaxAttempts
              THEN [answered EXCEPT !.pc = "done",
                                    !.result = EngineResult("MaxAttemptsExceeded", response)]
              ELSE [answered EXCEPT !.pc = "select", !.attempt = @ + 1]
         [] OTHER ->
              [answered EXCEPT !.pc = "done",
                               !.result = EngineResult("Status", response)]

\* the timeout budget of the whole run is used up: an outstanding call is
\* dropped
timed_out(e) ==
    [e EXCEPT !.pc = "done",
              !.result = EngineResult("TimedOut", "timeout"),
              !.log = [i \in 1 .. Len(e.log) |->
                         IF e.log[i].response = "pending"
                         THEN [e.log[i] EXCEPT !.response = "cancelled"]
                         ELSE e.log[i]]]

\* the number of chunks the chunk planner gives the engine: 1 for a payload
\* that is a single transaction, more for a payload split by the chunk size
ChunkPlans == 1 .. MaxChunks

\* execute_with_optional_timeout: freeze, then hand the envelope to the
\* engine; a freeze error is returned before the engine is entered
StartCall(op, timeout, client, random, total) ==
    /\ calls' = calls + 1
    /\ body' = execute_freeze(body, client, random).body
    /\ IF execute_freeze(body, client, random).status # "Ok"
       THEN /\ call' = Ret(op, execute_freeze(body, client, random).status)
            /\ engine' = engine
       ELSE /\ call' = Ret(op, "Pending")
            /\ engine' = engine_start(op, timeout, total)
    /\ UNCHANGED <<signers, origin, codec, signing>>

\* Transaction::execute, up to the first network call
ExecuteStart ==
    /\ Callable
    /\ \E client \in Clients, total \in ChunkPlans :
          \E random \in RandomChoices(body, Some(client)) :
              StartCall("execute", FALSE, client, random, total)

\* Transaction::execute_with_timeout, up to the first network call
ExecuteWithTimeoutStart ==
    /\ Callable
    /\ \E client \in Clients, total \in ChunkPlans :
          \E random \in RandomChoices(body, Some(client)) :
              StartCall("execute_with_timeout", TRUE, client, random, total)

\* the engine's step: the call that is in progress returns when the run is
\* done
EngineStep(e) ==
    /\ engine' = e
    /\ call' = IF e.pc = "done"
               THEN [call EXCEPT !.status = unwrap(e.result).kind,
                                 !.value = <<unwrap(e.result).detail>>]
               ELSE call
    /\ UNCHANGED <<body, signers, origin, calls, codec, signing>>

\* the engine sends the current chunk
EngineSend ==
    /\ engine.pc = "select"
    /\ EngineStep(send(engine, unwrap(body.node_account_ids)))

\* the node accepts the chunk
EngineAccept ==
    /\ engine.pc = "wait"
    /\ \E response \in Responses :
          classify(response) = "success" /\ EngineStep(receive(engine, response))

\* the call fails in transport or the node answers with a transient status
EngineTransient ==
    /\ engine.pc = "wait"
    /\ \E response \in Responses :
          classify(response) = "transient" /\ EngineStep(receive(engine, response))

\* the node answers with any other status
EngineFatal ==
    /\ engine.pc = "wait"
    /\ \E response \in Responses :
          classify(response) = "fatal" /\ EngineStep(receive(engine, response))

\* the timeout of execute_with_timeout expires
EngineTimeout ==
    /\ Executing
    /\ engine.timeout
    /\ EngineStep(timed_out(engine))

\* a new TokenUnpauseTransaction
InitExec ==
    /\ body = DefaultBody("TokenUnpause")
    /\ signers = <<>>
    /\ origin = "new"
    /\ call = NoCall
    /\ calls = 0
    /\ engine = EngineIdle
    /\ codec = CodecIdle
    /\ signing = SigningIdle

NextExec ==
    \/ SetNodeAccountIds
    \/ ExecuteStart
    \/ ExecuteWithTimeoutStart
    \/ EngineSend
    \/ EngineAccept
    \/ EngineTransient
    \/ EngineFatal
    \/ EngineTimeout

SpecExec == InitExec /\ [][NextExec]_vars

(* ------------------------ rendering and bytes ------------------------- *)

\* the ChunkInfo values of an operation of up to MaxChunks chunks
ChunkInfos ==
    { ci \in [current : 0 .. MaxChunks - 1, total : 1 .. MaxChunks] :
        ci.current < ci.total }

\* from_protobuf that loses the call data file id
from_protobuf_ethereum_without_call_data(pb) ==
    [kind |-> "Ethereum",
     ethereum_data |-> pb.ethereum_data,
     call_data_file_id |-> None,
     max_gas_allowance_hbar |-> pb.max_gas_allowance]

\* FromProtobuf<services::EthereumTransactionBody> for EthereumTransactionData;
\* Hbar::from_tinybars holds the given number of tinybars
from_protobuf_ethereum(pb) ==
    [kind |-> "Ethereum",
     ethereum_data |-> pb.ethereum_data,
     call_data_file_id |-> EntityId_from_protobuf(pb.call_data),
     max_gas_allowance_hbar |-> pb.max_gas_allowance]

\* FromProtobuf<services::TokenUnpauseTransactionBody> for
\* TokenUnpauseTransactionData
from_protobuf_token_unpause(pb) ==
    [kind |-> "TokenUnpause", token_id |-> EntityId_from_protobuf(pb.token)]

\* the decoding of services::ContractCallTransactionBody
from_protobuf_contract_execute(pb) ==
    [kind |-> "ContractExecute",
     contract_id |-> EntityId_from_protobuf(pb.contract_id),
     gas_limit |-> pb.gas,
     value |-> pb.amount,
     data |-> pb.function_parameters]

\* AnyTransactionData::from_protobuf: by the kind of the body
from_protobuf(pb) ==
    CASE pb.kind = "EthereumTransaction" -> from_protobuf_ethereum(pb)
      [] pb.kind = "TokenUnpause" -> from_protobuf_token_unpause(pb)
      [] pb.kind = "ContractCall" -> from_protobuf_contract_execute(pb)

\* two transaction bodies of one transaction list differ in the node only
same_transaction(a, b) == [a EXCEPT !.node_account_id = b.node_account_id] = b

\* AnyTransaction::from_bytes: the envelope of a transaction list, Frozen,
\* with one node per entry and every field of the body explicit
from_bytes(bytes) ==
    IF Len(bytes) = 0 \/ \E i \in 1 .. Len(bytes) : ~same_transaction(bytes[i], bytes[1])
    THEN [status |-> "FromProtobuf", body |-> None]
    ELSE [status |-> "Ok",
          body |-> Some(
            [ data |-> from_protobuf(unwrap(bytes[1].data)),
              node_account_ids |->
                  Some([i \in 1 .. Len(bytes) |-> bytes[i].node_account_id]),
              transaction_valid_duration |-> Some(bytes[1].transaction_valid_duration),
              max_transaction_fee |-> Some(bytes[1].transaction_fee),
              transaction_memo |-> bytes[1].memo,
              transaction_id |-> Some(bytes[1].transaction_id),
              operator |-> None,
              is_frozen |-> TRUE ])]

\* ToTransactionDataProtobuf::to_transaction_data_protobuf applied to the
\* payload for some ChunkInfo
Render ==
    /\ Running
    /\ \E chunk_info \in ChunkInfos :
          \E asserted \in assert_single_transaction(chunk_info) :
              codec' = [op |-> "render", input |-> <<chunk_info>>,
                        output |-> to_transaction_data_protobuf(body.data, asserted)]
    /\ UNCHANGED <<body, signers, origin, call, calls, engine, signing>>

\* AnyTransaction::from_bytes applied to the bytes to_bytes returned
FromBytes ==
    /\ call.op = "to_bytes"
    /\ call.status = "Ok"
    /\ codec' = [op |-> "from_bytes", input |-> call.value,
                 output |-> from_bytes(call.value)]
    /\ UNCHANGED <<body, signers, origin, call, calls, engine, signing>>

OptEntityIds == {None} \cup { Some(id) : id \in EntityIds }

\* the payloads the setters can build
PayloadData ==
    [ kind : {"Ethereum"}, ethereum_data : {<<>>} \cup ByteStrings,
      call_data_file_id : OptEntityIds, max_gas_allowance_hbar : {0} \cup Amounts ]
    \cup [ kind : {"TokenUnpause"}, token_id : OptEntityIds ]
    \cup [ kind : {"ContractExecute"}, contract_id : OptEntityIds,
           gas_limit : {0} \cup Amounts, value : {0} \cup Amounts,
           data : {<<>>} \cup ByteStrings ]

\* envelopes built by new(), the setters, freeze() and sign(): an explicit
\* node list, any of the other fields set or not, Frozen, one signer
InitCodec ==
    /\ body \in
        [ data : PayloadData,
          node_account_ids : { Some(ids) : ids \in ExplicitNodeLists },
          transaction_valid_duration : {None} \cup { Some(d) : d \in Durations },
          max_transaction_fee : {None} \cup { Some(f) : f \in ExplicitFees },
          transaction_memo : {""} \cup Memos,
          transaction_id : {None} \cup { Some(id) : id \in ExplicitTransactionIds },
          operator : {None},
          is_frozen : {TRUE} ]
    /\ signers \in { <<AnySigner_PrivateKey(private_key)>> : private_key \in PrivateKeys }
    /\ origin = "new"
    /\ call = NoCall
    /\ calls = 0
    /\ engine = EngineIdle
    /\ codec = CodecIdle
    /\ signing = SigningIdle

NextCodec ==
    \/ ToBytes
    \/ FromBytes
    \/ Render

SpecCodec == InitCodec /\ [][NextCodec]_vars

(* ------------------------- concurrent signing ------------------------- *)

\* the signers a caller can pass: sign(private_key), sign_with(public_key, ..)
AnySigners ==
    { AnySigner_PrivateKey(private_key) : private_key \in PrivateKeys }
    \cup { AnySigner_Arbitrary(pk) : pk \in PublicKeys }

\* access to the envelope that is not exclusive
shared_access(s) == TRUE

\* sign_signer(&mut self, ..): the call needs the exclusive borrow of the
\* envelope, which no other call may hold
exclusive_borrow(s) == s.borrow = None

\* caller c is at `pc` of sign_signer with `signer`; `holder` has the borrow
at(s, c, pc, signer, holder) ==
    [s EXCEPT !.borrow = holder, !.callers[c] = [pc |-> pc, signer |-> signer]]

\* a caller enters sign_signer with the signer of sign or sign_with
Enter(c, signer) ==
    /\ signing' = at(signing, c, "check", Some(signer), Some(c))
    /\ UNCHANGED <<body, signers, origin, call, calls, engine, codec>>

\* Transaction::sign called by some caller
SignEnter ==
    /\ exclusive_borrow(signing)
    /\ \E c \in Callers, private_key \in PrivateKeys :
          /\ signing.callers[c].pc = "idle"
          /\ Enter(c, AnySigner_PrivateKey(private_key))

\* Transaction::sign_with called by some caller
SignWithEnter ==
    /\ exclusive_borrow(signing)
    /\ \E c \in Callers, pk \in PublicKeys :
          /\ signing.callers[c].pc = "idle"
          /\ Enter(c, AnySigner_Arbitrary(pk))

\* sign_signer: the membership test; when the key is there the call returns
SignCheck ==
    /\ \E c \in Callers :
          /\ signing.callers[c].pc = "check"
          /\ IF \E i \in 1 .. Len(signers) :
                    public_key(signers[i]) = public_key(unwrap(signing.callers[c].signer))
             THEN signing' = at(signing, c, "done", signing.callers[c].signer, None)
             ELSE signing' = at(signing, c, "push", signing.callers[c].signer, signing.borrow)
    /\ UNCHANGED <<body, signers, origin, call, calls, engine, codec>>

\* sign_signer: self.signers.push(signer), and the call returns
SignPush ==
    /\ \E c \in Callers :
          /\ signing.callers[c].pc = "push"
          /\ signers' = Append(signers, unwrap(signing.callers[c].signer))
          /\ signing' = at(signing, c, "done", signing.callers[c].signer, None)
    /\ UNCHANGED <<body, origin, call, calls, engine, codec>>

\* an envelope Frozen by freeze() with an explicit node list, unsigned or
\* with one signer, shared by the callers
InitSign ==
    /\ \E kind \in Kinds, ids \in ExplicitNodeLists :
          body = [DefaultBody(kind) EXCEPT !.node_account_ids = Some(ids),
                                           !.is_frozen = TRUE]
    /\ signers \in {<<>>} \cup { <<signer>> : signer \in AnySigners }
    /\ origin = "new"
    /\ call = NoCall
    /\ calls = 0
    /\ engine = EngineIdle
    /\ codec = CodecIdle
    /\ signing = SigningIdle

NextSign ==
    \/ SignEnter
    \/ SignWithEnter
    \/ SignCheck
    \/ SignPush

SpecSign == InitSign /\ [][NextSign]_vars

(* --------------------------- specification ---------------------------- *)

Next ==
    \/ SetNodeAccountIds
    \/ SetTransactionValidDuration
    \/ SetMaxTransactionFee
    \/ SetTransactionMemo
    \/ SetTransactionId
    \/ SetEthereumData
    \/ SetCallDataFileId
    \/ SetMaxGasAllowanceHbar
    \/ SetTokenId
    \/ SetContractId
    \/ SetGasLimit
    \/ SetValue
    \/ SetData
    \/ Sign
    \/ SignWith
    \/ Freeze
    \/ FreezeWith
    \/ ToBytes
    \/ Execute
    \/ ExecuteWithTimeout

Spec == Init /\ [][Next]_vars

(* ------------------------------ claims -------------------------------- *)

FreezeOps == {"freeze", "freeze_with"}
ExecuteOps == {"execute", "execute_with_timeout"}
SignOps == {"sign", "sign_with"}

\* the public-key identities of a signer list
KeySet(ss) == { public_key(ss[i]) : i \in 1 .. Len(ss) }

\* C1: when freeze_with returns a checksum error, the envelope is still
\* Mutable afterwards (is_frozen is false, so setters still succeed).
C1_ChecksumErrorLeavesMutable ==
    (call.op \in FreezeOps /\ call.status = "ChecksumMismatch") => ~body.is_frozen

\* C2: every mutator called on a Frozen envelope fails and leaves every
\* metadata and payload field as it was.
C2_FrozenRejectsEveryMutator ==
    [][(body.is_frozen /\ call'.op \in Setters)
          => (call'.status # "Ok" /\ body' = body)]_vars

\* C3: freeze / freeze_with on a Frozen envelope returns success and changes
\* nothing, whatever client is passed.
C3_FreezeIdempotent ==
    [][(body.is_frozen /\ call'.op \in FreezeOps)
          => (call'.status = "Ok" /\ body' = body /\ signers' = signers)]_vars

\* a bare freeze() succeeded on an envelope that an earlier freeze_with had
\* frozen with a client (the operator and fee of that client are still there)
C3_Witness ==
    /\ call.op = "freeze" /\ call.frozen_before /\ call.status = "Ok"
    /\ origin = "new"
    /\ body.is_frozen
    /\ body.operator # None
    /\ body.max_transaction_fee = Some(2)

\* C4: after sign or sign_with the envelope is Frozen.
C4_SignFreezes ==
    call.op \in SignOps => body.is_frozen

\* C5: the signer list never holds two entries with the same public key, a
\* sign call with a key already present leaves the list as it is, and a sign
\* call with a new key appends exactly that key at the end.
C5_SignersDeduplicatedInOrder ==
    /\ [](\A i, j \in 1 .. Len(signers) :
            i # j => public_key(signers[i]) # public_key(signers[j]))
    /\ [][call'.op \in SignOps =>
            IF call'.value[1] \in KeySet(signers)
            THEN signers' = signers
            ELSE /\ Len(signers') = Len(signers) + 1
                 /\ SubSeq(signers', 1, Len(signers)) = signers
                 /\ public_key(signers'[Len(signers')]) = call'.value[1]]_vars

\* three sign calls, the last a sign(private key) whose public key had been
\* added first through sign_with: two entries, in insertion order
C5_Witness ==
    /\ calls = 3 /\ call.op = "sign" /\ call.value = <<1>>
    /\ Len(signers) = 2
    /\ signers[1] = AnySigner_Arbitrary(1)
    /\ public_key(signers[2]) = 2

\* the documented precedence of the fee limit
FeeTable(explicit, client) ==
    IF explicit # None THEN explicit
    ELSE IF client # None /\ unwrap(client).max_transaction_fee > 1
         THEN Some(unwrap(client).max_transaction_fee)
         ELSE None

\* C6: a freeze of a Mutable envelope resolves the fee by the precedence
\* explicit fee, else client default above 1 tinybar, else unset.
C6_FeePrecedence ==
    [][(~body.is_frozen /\ body'.is_frozen /\ call'.op \in FreezeOps) =>
          \A client \in OptClients :
            \A random \in RandomChoices(body, client) :
              FreezeCall(call'.op, client, random) =>
                  body'.max_transaction_fee = FeeTable(body.max_transaction_fee, client)]_vars

\* a freeze_with took the client's default fee of 2 tinybars
C6_Witness ==
    /\ call.op = "freeze_with" /\ ~call.frozen_before /\ call.status = "Ok"
    /\ body.is_frozen
    /\ body.max_transaction_fee = Some(2)

\* C7: a freeze of a Mutable envelope keeps an explicit node list as it is,
\* with or without a client (and succeeds without one); with no explicit list
\* it takes nodes of the client; with neither it fails with the
\* missing-node-list error and changes nothing.
C7_NodeListPrecedence ==
    [][(~body.is_frozen /\ call'.op \in FreezeOps) =>
          \A client \in OptClients :
            \A random \in RandomChoices(body, client) :
              FreezeCall(call'.op, client, random) =>
                  IF body.node_account_ids # None
                  THEN /\ body'.node_account_ids = body.node_account_ids
                       /\ body'.is_frozen
                       /\ client = None => call'.status = "Ok"
                  ELSE IF client # None
                  THEN /\ body'.node_account_ids # None
                       /\ Len(unwrap(body'.node_account_ids)) > 0
                       /\ \A i \in 1 .. Len(unwrap(body'.node_account_ids)) :
                             unwrap(body'.node_account_ids)[i] \in ClientNetwork
                  ELSE /\ call'.status = "FreezeUnsetNodeAccountIds"
                       /\ body' = body]_vars

\* a bare freeze() of a Mutable envelope with an explicit node list succeeded
C7_Witness ==
    /\ call.op = "freeze" /\ ~call.frozen_before /\ call.status = "Ok"
    /\ body.is_frozen
    /\ body.node_account_ids = Some(<<5, 3>>)

\* C8: a freeze of a Mutable envelope that holds an operator keeps it.
C8_EnvelopeOperatorKept ==
    [][(~body.is_frozen /\ body'.is_frozen /\ body.operator # None
            /\ call'.op \in FreezeOps \cup ExecuteOps)
          => body'.operator = body.operator]_vars

\* C9: an envelope built by new() starts Mutable, and no call takes a Frozen
\* envelope back to Mutable.
C9_FreezeLatch ==
    /\ []((origin = "new" /\ calls = 0) => ~body.is_frozen)
    /\ [][body.is_frozen => body'.is_frozen]_vars

\* a setter was called on a Frozen envelope, which is still Frozen
C9_Witness ==
    call.op \in Setters /\ call.frozen_before /\ body.is_frozen

\* C10: a setter called on a Frozen envelope returns the frozen-contract
\* violation as an error value.
C10_FrozenMutationIsErrorValue ==
    (call.op \in Setters /\ call.frozen_before) => call.status = "FrozenContractViolation"

\* C10 as amended: a setter called on a Frozen envelope never returns an
\* error value; the setters through body_mut / data_mut panic and leave the
\* body as it was, the ContractExecute payload setters return normally.
C10_FrozenMutationPanics ==
    [][(body.is_frozen /\ call'.op \in Setters) =>
          IF call'.op \in DirectPayloadSetters
          THEN call'.status = "Ok"
          ELSE call'.status = "Panic" /\ body' = body]_vars

\* a metadata setter panicked on a Frozen envelope
C10_Witness ==
    call.op \in MetadataSetters /\ call.frozen_before /\ call.status = "Panic"

\* C11: two serializations of the same Frozen envelope, one right after the
\* other, carry the same transaction id and the same node list, also when
\* the transaction id is derived from the operator.
C11_SerializationsAgree ==
    [][(/\ call.op = "to_bytes" /\ call.status = "Ok"
        /\ call'.op = "to_bytes" /\ call'.status = "Ok")
          => /\ Len(call'.value) = Len(call.value)
             /\ \A i \in 1 .. Len(call.value) :
                   /\ call'.value[i].node_account_id = call.value[i].node_account_id
                   /\ call'.value[i].transaction_id = call.value[i].transaction_id]_vars

C17_ValidDurationSerialized ==
    /\ []((call.op = "to_bytes" /\ call.status = "Ok") =>
            \A i \in 1 .. Len(call.value) :
                call.value[i].transaction_valid_duration =
                    IF body.transaction_valid_duration = None
                    THEN 120
                    ELSE unwrap(body.transaction_valid_duration))
    /\ [][call'.op \in FreezeOps \cup ExecuteOps =>
            body'.transaction_valid_duration = body.transaction_valid_duration]_vars

\* an envelope frozen with no valid duration set was serialized with 120
C17_Witness ==
    /\ call.op = "to_bytes" /\ call.status = "Ok"
    /\ body.is_frozen
    /\ body.transaction_valid_duration = None
    /\ call.value[1].transaction_valid_duration = 120

\* C13: no network call of an execute is made on a Mutable envelope; an
\* execute of a Frozen envelope leaves every field as resolved before and
\* enters the engine; when the implicit freeze fails, that error is
\* returned and the engine is not entered.
C13_FreezeBeforeSubmit ==
    /\ []((Executing \/ engine.log # <<>>) => body.is_frozen)
    /\ [][(call'.op \in ExecuteOps /\ calls' = calls + 1) =>
            /\ body.is_frozen =>
                  (body' = body /\ engine'.pc = "select" /\ engine'.log = <<>>)
            /\ ~body.is_frozen =>
                 \A client \in Clients, total \in ChunkPlans :
                   \A random \in RandomChoices(body, Some(client)) :
                     (/\ freeze_with(body, Some(client), random).status # "Ok"
                      /\ StartCall(call'.op, engine'.timeout, client, random, total))
                        => /\ call'.status = freeze_with(body, Some(client), random).status
                           /\ engine' = engine
                           /\ engine.log = <<>>]_vars

\* a second execute of the envelope, Frozen by the first, made a network
\* call to a node the first freeze had taken from the client
C13_Witness ==
    /\ calls = 2 /\ call.op \in ExecuteOps /\ call.frozen_before
    /\ engine.pc = "wait"
    /\ Len(engine.log) = 1
    /\ body.is_frozen
    /\ engine.log[1].node = unwrap(body.node_account_ids)[1]
    /\ engine.log[1].node \in ClientNetwork

\* the responses after which the specification retries, and those that end
\* the run at once
TransientResponses == {"BUSY", "TransportError"}
FatalResponses == Responses \ ({"SUCCESS"} \cup TransientResponses)

\* the execute that ran the engine returned this result (a later call on
\* the envelope takes its place in `call`)
Returned(kind, detail) ==
    call.op \in ExecuteOps => (call.status = kind /\ call.value = <<detail>>)

\* the network calls of the current chunk that have no answer yet
Outstanding == { i \in 1 .. Len(engine.log) : engine.log[i].response = "pending" }

\* C18: a response that is neither success nor transient is the last
\* network call of the run: the run is over with that status as its result,
\* the chunk has had no call after it (on attempt 1: one call, no retry), no
\* later chunk has been sent, and a finished run makes no further call.
C18_FatalStatusAborts ==
    /\ [](\A i \in 1 .. Len(engine.log) :
            engine.log[i].response \in FatalResponses =>
                /\ i = Len(engine.log)
                /\ engine.log[i].attempt = i
                /\ engine.pc = "done"
                /\ engine.result = EngineResult("Status", engine.log[i].response)
                /\ Returned("Status", engine.log[i].response)
                /\ engine.chunk = engine.log[i].chunk
                /\ engine.accepted = engine.log[i].chunk)
    /\ [][(engine.pc = "done" /\ calls' = calls) => engine' = engine]_vars

\* the first chunk of a two-chunk operation got a fatal status on its first
\* attempt: one network call in all, the second chunk never sent
C18_Witness ==
    /\ engine.pc = "done"
    /\ engine.total = 2
    /\ engine.chunk = 0
    /\ engine.accepted = 0
    /\ Len(engine.log) = 1
    /\ engine.log[1].response = "INVALID_SIGNATURE"
    /\ call.op = "execute" /\ call.status = "Status"

\* C19: within one execute every network call is for the chunk whose index
\* is the number of chunks accepted so far, the chunk index only moves up by
\* one and only when the outstanding call was accepted, and there is never
\* more than one outstanding network call.
C19_ChunksInOrderOneAtATime ==
    /\ [](\A i \in 1 .. Len(engine.log) :
            /\ engine.log[i].chunk < engine.total
            /\ engine.log[i].chunk = engine.chunk
            /\ engine.log[i].response = "SUCCESS" => i = Len(engine.log))
    /\ [](engine.accepted =
            IF Len(engine.log) > 0 /\ engine.log[Len(engine.log)].response = "SUCCESS"
            THEN engine.chunk + 1
            ELSE engine.chunk)
    /\ [](/\ Cardinality(Outstanding) <= 1
          /\ Outstanding # {} => (engine.pc = "wait" /\ Len(engine.log) \in Outstanding))
    /\ [][calls' = calls =>
            /\ engine'.chunk \in {engine.chunk, engine.chunk + 1}
            /\ engine'.chunk = engine.chunk + 1 =>
                  /\ engine.pc = "wait"
                  /\ engine'.accepted = engine.accepted + 1
                  /\ engine'.chunk = engine'.accepted
            /\ engine'.pc = "wait" =>
                  /\ Outstanding = {}
                  /\ engine'.log[Len(engine'.log)].chunk = engine.accepted]_vars

\* the second chunk of a two-chunk operation is outstanding, after the first
\* was accepted
C19_Witness ==
    /\ engine.pc = "wait"
    /\ engine.total = 2
    /\ engine.accepted = 1
    /\ Len(engine.log) = 1
    /\ engine.log[1].chunk = 1
    /\ engine.log[1].response = "pending"

\* C20: the k-th network call for a chunk (k from 1) goes to node
\* (k - 1) mod n of the resolved node list and follows only transient
\* failures; there are at most max_attempts calls for a chunk; a success
\* after transient failures is a success of the chunk (of the operation, on
\* the last chunk); max_attempts transient failures end the run with
\* MaxAttemptsExceeded carrying the last failure, and nothing else does.
C20_RetryRotatesNodes ==
    /\ [](\A i \in 1 .. Len(engine.log) :
            /\ engine.log[i].attempt = i
            /\ i <= MaxAttempts
            /\ engine.log[i].node =
                  unwrap(body.node_account_ids)[((i - 1) % Len(unwrap(body.node_account_ids))) + 1]
            /\ i < Len(engine.log) => engine.log[i].response \in TransientResponses)
    /\ []((Len(engine.log) > 0 /\ engine.log[Len(engine.log)].response = "SUCCESS") =>
            /\ engine.pc = "done"
            /\ engine.accepted = engine.total
            /\ engine.result = EngineResult("Ok", "SUCCESS")
            /\ Returned("Ok", "SUCCESS"))
    /\ []((/\ Len(engine.log) = MaxAttempts
           /\ engine.log[MaxAttempts].response \in TransientResponses)
            <=> (engine.result # None /\ unwrap(engine.result).kind = "MaxAttemptsExceeded"))
    /\ []((engine.result # None /\ unwrap(engine.result).kind = "MaxAttemptsExceeded") =>
            /\ engine.pc = "done"
            /\ unwrap(engine.result).detail = engine.log[Len(engine.log)].response
            /\ Returned("MaxAttemptsExceeded", engine.log[Len(engine.log)].response))
    /\ [][(calls' = calls /\ engine'.attempt # engine.attempt) =>
            \/ /\ engine'.chunk = engine.chunk
               /\ engine'.attempt = engine.attempt + 1
               /\ engine'.log[Len(engine'.log)].response \in TransientResponses
            \/ /\ engine'.chunk = engine.chunk + 1
               /\ engine'.attempt = 1]_vars

\* over a list of two nodes the chunk failed on node 0 (busy) and on node 1
\* (transport error) and was accepted on the third attempt, on node 0 again
C20_Witness ==
    /\ engine.pc = "done"
    /\ unwrap(engine.result).kind = "Ok"
    /\ Len(unwrap(body.node_account_ids)) = 2
    /\ Len(engine.log) = 3
    /\ engine.log[1].response = "BUSY"
    /\ engine.log[2].response = "TransportError"
    /\ engine.log[3].response = "SUCCESS"
    /\ engine.log[1].node = unwrap(body.node_account_ids)[1]
    /\ engine.log[2].node = unwrap(body.node_account_ids)[2]
    /\ engine.log[3].node = unwrap(body.node_account_ids)[1]

\* C14: rendering a single-transaction payload (Ethereum, TokenUnpause,
\* ContractExecute) for a ChunkInfo with total > 1 or index > 0 is reported
\* as a contract violation (UnsupportedChunking, by value or by aborting)
\* and produces no transaction body.
C14_MultiChunkRejected ==
    (/\ codec.op = "render"
     /\ (codec.input[1].total > 1 \/ codec.input[1].current > 0))
        => /\ codec.output.status \in {"UnsupportedChunking", "Panic"}
           /\ codec.output.data = None

\* C15: for a Frozen, signed envelope with an explicit node list and
\* transaction id, from_bytes of its to_bytes succeeds and gives a Frozen
\* envelope with the same transaction body for every node (transaction id,
\* node, fee, valid duration, memo, payload).
C15_BytesRoundTrip ==
    (/\ codec.op = "from_bytes"
     /\ body.is_frozen
     /\ signers # <<>>
     /\ body.node_account_ids # None
     /\ body.transaction_id # None)
        => /\ codec.output.status = "Ok"
           /\ unwrap(codec.output.body).is_frozen
           /\ \A now \in Times : \A results \in RequestResults(body) :
                 to_bytes(unwrap(codec.output.body), now, results) =
                     to_bytes(body, now, results)

\* an Ethereum envelope with a checksummed call data file id and no valid
\* duration set went through to_bytes and from_bytes: the decoded envelope
\* has the file id without checksum and the duration 120
C15_Witness ==
    /\ codec.op = "from_bytes" /\ codec.output.status = "Ok"
    /\ body.is_frozen /\ signers # <<>>
    /\ body.transaction_id # None
    /\ body.data.kind = "Ethereum"
    /\ body.data.call_data_file_id # None
    /\ unwrap(body.data.call_data_file_id).checksum # None
    /\ body.transaction_valid_duration = None
    /\ unwrap(codec.output.body).data.call_data_file_id = Some([num |-> 6, checksum |-> None])
    /\ unwrap(codec.output.body).transaction_valid_duration = Some(120)
    /\ unwrap(codec.output.body).node_account_ids = body.node_account_ids

\* C16: whatever the interleaving of the sign and sign_with calls of several
\* callers on one Frozen envelope, the signer list never holds two entries
\* with the same public key, and the key of every call that has returned is
\* in the list.
C16_ConcurrentSignDedup ==
    /\ \A i, j \in 1 .. Len(signers) :
          i # j => public_key(signers[i]) # public_key(signers[j])
    /\ \A c \in Callers :
          signing.callers[c].pc = "done" =>
              public_key(unwrap(signing.callers[c].signer)) \in KeySet(signers)

\* two callers signed an unsigned Frozen envelope with the same public key,
\* one with the private key and one with sign_with: both calls returned and
\* the list holds the key once
C16_Witness ==
    /\ body.is_frozen
    /\ signing.callers[1].pc = "done"
    /\ signing.callers[2].pc = "done"
    /\ unwrap(signing.callers[1].signer).variant = "Arbitrary"
    /\ unwrap(signing.callers[2].signer).variant = "PrivateKey"
    /\ public_key(unwrap(signing.callers[1].signer))
          = public_key(unwrap(signing.callers[2].signer))
    /\ Len(signers) = 1

\* C21: a freeze_with of a Mutable envelope with a client that requests
\* automatic checksum validation and has no ledger id validates nothing and
\* returns success (the node list is resolvable through the client).
C21_NoLedgerIdSkipsValidation ==
    [][(~body.is_frozen /\ call'.op \in FreezeOps) =>
          \A client \in OptClients :
            \A random \in RandomChoices(body, client) :
              (/\ client # None
               /\ unwrap(client).auto_validate_checksums
               /\ unwrap(client).ledger_id = None
               /\ FreezeCall(call'.op, client, random))
                 => call'.status = "Ok"]_vars

\* the result of the checksum step, by what the client asks for and has
ChecksumTable(data, client) ==
    IF client = None THEN "Ok"
    ELSE IF ~unwrap(client).auto_validate_checksums THEN "Ok"
    ELSE IF unwrap(client).ledger_id = None THEN "CannotPerformTaskWithoutLedgerId"
    ELSE IF validate_checksums(data, unwrap(unwrap(client).ledger_id)) THEN "Ok"
    ELSE "ChecksumMismatch"

\* C21 as amended: a freeze of a Mutable envelope whose node list is
\* resolvable validates the payload's checksums only when the client
\* requests it and has a ledger id; when the client requests it and has no
\* ledger id, nothing is validated and the call returns
\* CannotPerformTaskWithoutLedgerId, with the envelope already Frozen.
C21_NoLedgerIdIsAnError ==
    [][(~body.is_frozen /\ call'.op \in FreezeOps) =>
          \A client \in OptClients :
            \A random \in RandomChoices(body, client) :
              (/\ (client # None \/ body.node_account_ids # None)
               /\ FreezeCall(call'.op, client, random))
                 => /\ call'.status = ChecksumTable(body.data, client)
                    /\ body'.is_frozen]_vars

\* a freeze_with returned CannotPerformTaskWithoutLedgerId for a payload whose
\* entity id carries a checksum, and left the envelope Frozen
C21_Witness ==
    /\ call.op = "freeze_with" /\ ~call.frozen_before
    /\ call.status = "CannotPerformTaskWithoutLedgerId"
    /\ body.is_frozen
    /\ body.data.kind = "TokenUnpause"
    /\ body.data.token_id # None
    /\ unwrap(body.data.token_id).checksum # None

\* C22: a sign or sign_with call leaves the whole body as it was (payload,
\* node list, fee limit, memo, valid duration, transaction id, operator,
\* freeze flag) and changes the signer list at most by one entry appended
\* after the entries that were there, which keep their positions.
C22_SignFrame ==
    [][call'.op \in SignOps =>
          /\ body' = body
          /\ Len(signers') \in {Len(signers), Len(signers) + 1}
          /\ SubSeq(signers', 1, Len(signers)) = signers]_vars

\* a sign_with call appended a second signer to a Mutable envelope whose
\* memo had been set
C22_Witness ==
    /\ call.op = "sign_with" /\ call.status = "Ok"
    /\ Len(signers) = 2
    /\ body.transaction_memo = "memo"
    /\ ~body.is_frozen

\* C23: a freeze or freeze_with that succeeds on a Mutable envelope leaves
\* the payload, the memo, the valid duration, the transaction id and the
\* signer list as they were; only the node list, the fee limit, the operator
\* and the freeze flag can differ.
C23_FreezeFrame ==
    [][(~body.is_frozen /\ call'.op \in FreezeOps /\ call'.status = "Ok") =>
          /\ body'.data = body.data
          /\ body'.transaction_memo = body.transaction_memo
          /\ body'.transaction_valid_duration = body.transaction_valid_duration
          /\ body'.transaction_id = body.transaction_id
          /\ signers' = signers
          /\ body' = [body EXCEPT !.node_account_ids = body'.node_account_ids,
                                  !.max_transaction_fee = body'.max_transaction_fee,
                                  !.operator = body'.operator,
                                  !.is_frozen = TRUE]]_vars

\* a freeze_with froze an envelope whose memo had been set, taking nodes,
\* fee and operator from the client
C23_Witness ==
    /\ call.op = "freeze_with" /\ ~call.frozen_before /\ call.status = "Ok"
    /\ body.is_frozen
    /\ body.transaction_memo = "memo"
    /\ body.operator # None
    /\ body.max_transaction_fee = Some(2)
    /\ body.node_account_ids # None

\* C24: an envelope built by new() and the public operations that is Frozen
\* has a node list, and to_bytes on it does not abort (the unwrap of the
\* node list cannot fail).
C24_FrozenHasNodeList ==
    origin = "new" =>
        /\ body.is_frozen => body.node_account_ids # None
        /\ (call.op = "to_bytes" /\ body.is_frozen) => call.status # "Panic"

\* to_bytes returned one message for each of the two nodes that freeze_with
\* had taken from the client
C24_Witness ==
    /\ origin = "new"
    /\ call.op = "to_bytes" /\ call.status = "Ok"
    /\ body.is_frozen
    /\ body.node_account_ids = Some(<<3, 4>>)
    /\ Len(call.value) = 2

\* C25: a freeze or freeze_with that fails for want of a node list and a
\* client leaves the envelope as it was (Mutable, same node list, fee limit,
\* operator and every other field, same signers); and a freeze_with made
\* right after the failure with a client, or a freeze made after a node list
\* was set, does not fail for that reason again and freezes the envelope.
C25_FailedFreezeLeavesEnvelope ==
    [][/\ (call'.op \in FreezeOps /\ call'.status = "FreezeUnsetNodeAccountIds") =>
            /\ body' = body
            /\ ~body'.is_frozen
            /\ signers' = signers
       /\ (/\ call.op \in FreezeOps /\ call.status = "FreezeUnsetNodeAccountIds"
           /\ call'.op = "freeze_with") =>
            \A client \in Clients : \A random \in RandomChoices(body, Some(client)) :
                FreezeCall(call'.op, Some(client), random) =>
                    /\ body'.is_frozen
                    /\ body'.node_account_ids = Some(random)
                    /\ call'.status = checksum_step(body, Some(client))
       /\ (/\ call.op = "node_account_ids" /\ call.status = "Ok"
           /\ call'.op \in FreezeOps /\ ~body.is_frozen) =>
            /\ body'.is_frozen
            /\ body'.node_account_ids = body.node_account_ids
            /\ call'.status # "FreezeUnsetNodeAccountIds"]_vars

\* a freeze has just failed on an envelope that carries a memo and a fee
\* limit but no node list
C25_Witness ==
    /\ call.op \in FreezeOps
    /\ call.status = "FreezeUnsetNodeAccountIds"
    /\ ~body.is_frozen
    /\ body.node_account_ids = None
    /\ body.max_transaction_fee # None
    /\ body.transaction_memo = "memo"

\* C26: to_bytes on a Frozen envelope whose transaction id can be determined
\* returns, when every node's message is built, one message per node of the
\* node list in node-list order, all with one transaction id; and when the
\* message of some node fails, the error of the first such node and no list.
C26_OneMessagePerNode ==
    [][(call'.op = "to_bytes" /\ body.is_frozen
        /\ (body.transaction_id # None \/ body.operator # None)) =>
          LET nodes == unwrap(body.node_account_ids)
          IN \A results \in RequestResults(body) :
               LET failed == { i \in 1 .. Len(nodes) : results[nodes[i]] # "Ok" }
               IN ((call'.status = "Ok") = (failed = {})) =>
                    \A now \in Times :
                      (/\ call'.status = to_bytes(body, now, results).status
                       /\ call'.value = to_bytes(body, now, results).value) =>
                         IF failed = {}
                         THEN /\ Len(call'.value) = Len(nodes)
                              /\ \A i \in 1 .. Len(nodes) :
                                    /\ call'.value[i].node_account_id = nodes[i]
                                    /\ call'.value[i].transaction_id =
                                          call'.value[1].transaction_id
                         ELSE /\ \E i \in failed :
                                    /\ call'.status = results[nodes[i]]
                                    /\ \A j \in failed : i <= j
                              /\ call'.value = <<>>]_vars

\* to_bytes returned the two messages of the node list 5, 3 under a
\* transaction id generated from the operator
C26_Witness ==
    /\ call.op = "to_bytes" /\ call.status = "Ok"
    /\ body.is_frozen
    /\ body.node_account_ids = Some(<<5, 3>>)
    /\ body.transaction_id = None
    /\ Len(call.value) = 2
    /\ call.value[1].node_account_id = 5
    /\ call.value[2].node_account_id = 3
    /\ call.value[1].transaction_id = call.value[2].transaction_id

====
